---- MODULE Spec2Model ----
(***************************************************************************)
(* The experiment runner of the eval framework: runExperiment fans out     *)
(* fixtures x runs attempts, every attempt awaits agent.run, a passing     *)
(* attempt aborts its fixture's AbortController when earlyExit is set, and *)
(* after Promise.all the results are grouped, reconciled and summarised.   *)
(* JavaScript runs every handler to its next await without interleaving:   *)
(* each action below is one such run-to-completion step.                   *)
(***************************************************************************)
EXTENDS Integers, Sequences, FiniteSets, TLC

\* ------------------------------------------------------------------------
\* Bounds of the model
\* ------------------------------------------------------------------------
MaxFixtures == 2
MaxRuns == 3
MaxAttempts == 4

\* agent.run reports its duration in milliseconds; these are the values drawn
AgentDurations == {1000, 3000}

\* the error texts an agent result can carry: the last lines of the tool's
\* output or the message of whatever was thrown.  The runner tells apart only
\* the two abort texts from every other text.
AbortTexts == {"Aborted", "Aborted before start"}
AgentErrors == {"Test failed"} \cup AbortTexts

MsPerSecond == 1000

VARIABLES
    config,            \* ResolvedExperimentConfig: runs, earlyExit
    fixtures,          \* EvalFixture[] (each fixture is its unique name)
    attempts,          \* EvalAttempt[]: fixture x runIndex, in launch order
    phase,             \* position of runExperiment
    launched,          \* how many attempts attempts.map(runAttempt) has started
    pc,                \* position of each runAttempt
    abortControllers,  \* fixture name -> controller.signal.aborted
    agentSignal,       \* per attempt: was options.signal passed to agent.run
    listener,          \* per attempt: the agent's abortHandler is registered
    agentAborted,      \* per attempt: the agent's own `aborted` flag
    agentCalls,        \* fixture name -> number of agent.run invocations
    results,           \* per attempt: the AttemptResult runAttempt resolved with
    natural,           \* per attempt: what the agent returns when left to finish
    evalSummaries,     \* EvalSummary[] of the returned ExperimentResults
    countedRuns,       \* per fixture: the run indices of the counted sequence
    exitCode,          \* the code the run command passed to process.exit, -1 before
    agent,             \* one agent.run invocation, step by step (SpecAgent)
    store              \* one createEvalSummary / saveResults application (SpecStore)

runnerVars == <<config, fixtures, attempts, phase, launched, pc, abortControllers,
                agentSignal, listener, agentAborted, agentCalls, results, natural,
                evalSummaries, countedRuns, exitCode>>

vars == <<runnerVars, agent, store>>

\* the value of `agent` and of `store` in the specifications that do not use them
Unused == [pc |-> "unused"]

NoResult == [aborted |-> FALSE, fixtureName |-> 0, runIndex |-> -1,
             runData |-> [result |-> [status |-> "none", error |-> "undefined", duration |-> 0]]]

\* ------------------------------------------------------------------------
\* Pure helpers
\* ------------------------------------------------------------------------

BuildAttempts_RepeatsFirstRun(fx, runs) ==
    [k \in 1..(Len(fx) * runs) |->
        [fixture |-> fx[((k - 1) \div runs) + 1], runIndex |-> 0]]

\* for (fixture of fixtures) for (i = 0; i < runs; i++) attempts.push(...)
BuildAttempts(fx, runs) ==
    [k \in 1..(Len(fx) * runs) |->
        [fixture |-> fx[((k - 1) \div runs) + 1], runIndex |-> (k - 1) % runs]]

\* the values agent.run can resolve with
AgentRunResults ==
    [success : {TRUE}, error : {"undefined"}, duration : AgentDurations]
        \cup [success : {FALSE}, error : AgentErrors, duration : AgentDurations]

\* An optional property of an object is a field the record has or lacks.
Has(obj, field) == field \in DOMAIN obj

\* the object with no property
NoProperty == [field \in {} |-> ""]

\* a property that is set only under a condition
Property(cond, field, value) == IF cond THEN field :> value ELSE NoProperty

\* a string in a condition: '' is falsy
Truthy(text) == text # ""

agentResultToEvalRunData(agentResult) ==
    LET evalOutput ==
            Property(Has(agentResult, "testResult") /\ Truthy(agentResult.testResult.output),
                     "eval", agentResult.testResult.output)
        hasScripts == Has(agentResult, "scriptsResults")
                          /\ DOMAIN agentResult.scriptsResults # {}
        scripts == [name \in {n \in DOMAIN agentResult.scriptsResults :
                                   Truthy(agentResult.scriptsResults[n].output)} |->
                       agentResult.scriptsResults[name].output]
        outputContent == Property(hasScripts, "scripts", scripts) @@ evalOutput
    IN [result |-> [status |-> IF agentResult.success THEN "passed" ELSE "failed",
                    error |-> agentResult.error,
                    duration |-> agentResult.duration \div MsPerSecond]]
         @@ Property(Has(agentResult, "transcript"), "transcript", agentResult.transcript)
         @@ Property(DOMAIN outputContent # {}, "outputContent", outputContent)

\* runAttempt's test of the agent result for an abort
IsAbortedResult(agentResult) ==
    agentResult.error = "Aborted" \/ agentResult.error = "Aborted before start"

AbortedAttemptResult_NotFlagged(attempt, seconds) ==
    [fixtureName |-> attempt.fixture, runIndex |-> attempt.runIndex,
     runData |-> [result |-> [status |-> "failed", error |-> "Aborted", duration |-> seconds]],
     aborted |-> FALSE]

AbortedAttemptResult(attempt, seconds) ==
    [fixtureName |-> attempt.fixture, runIndex |-> attempt.runIndex,
     runData |-> [result |-> [status |-> "failed", error |-> "Aborted", duration |-> seconds]],
     aborted |-> TRUE]

SignalOption_Always(cfg) == "signal"

\* the signal option runAttempt hands to agent.run
SignalOption(cfg) == IF cfg.earlyExit THEN "signal" ELSE "undefined"

ShouldAbort_Never(cfg, runData) == FALSE

ShouldAbort_OnAnyOutcome(cfg, runData) == cfg.earlyExit

\* the condition under which a completed attempt aborts its fixture
ShouldAbort(cfg, runData) == cfg.earlyExit /\ runData.result.status = "passed"

abort_Toggle(aborted) == ~aborted

\* controller.abort(): signal.aborted of the controller afterwards, given before
abort(aborted) == TRUE

AbortFlags_AllFixtures(f, self) ==
    [j \in DOMAIN attempts |->
        IF ~abortControllers[f] /\ j # self /\ listener[j]
        THEN TRUE ELSE agentAborted[j]]

\* controller.abort(): sets signal.aborted and, the first time only, dispatches
\* the abort event to the listeners registered on this fixture's signal
AbortFlags(f, self) ==
    [j \in DOMAIN attempts |->
        IF /\ ~abortControllers[f]
           /\ j # self
           /\ attempts[j].fixture = f
           /\ listener[j]
        THEN TRUE ELSE agentAborted[j]]

RECURSIVE SumDurations(_)
SumDurations(runs) ==
    IF runs = <<>> THEN 0 ELSE Head(runs).duration + SumDurations(Tail(runs))

RECURSIVE CountPassed(_)
CountPassed(runs) ==
    IF runs = <<>> THEN 0
    ELSE (IF Head(runs).status = "passed" THEN 1 ELSE 0) + CountPassed(Tail(runs))

createEvalSummary_NoEmptyCase(name, runData) ==
    LET runs == [i \in DOMAIN runData |-> runData[i].result]
    IN [name |-> name,
        totalRuns |-> Len(runs),
        passedRuns |-> CountPassed(runs),
        passRate |-> <<CountPassed(runs) * 100, Len(runs)>>,
        meanDuration |-> <<SumDurations(runs), Len(runs)>>,
        runs |-> runData]

\* a quotient a/b is kept as the pair <<a, b>>
createEvalSummary(name, runData) ==
    LET runs == [i \in DOMAIN runData |-> runData[i].result]
        passedRuns == CountPassed(runs)
        totalDuration == SumDurations(runs)
    IN [name |-> name,
        totalRuns |-> Len(runs),
        passedRuns |-> passedRuns,
        passRate |-> IF Len(runs) > 0 THEN <<passedRuns * 100, Len(runs)>> ELSE <<0, 1>>,
        meanDuration |-> IF Len(runs) > 0 THEN <<totalDuration, Len(runs)>> ELSE <<0, 1>>,
        runs |-> runData]

RECURSIVE GroupResults_AnyFixture(_, _)
GroupResults_AnyFixture(rs, name) ==
    IF rs = <<>> THEN <<>>
    ELSE IF ~Head(rs).aborted
         THEN <<Head(rs)>> \o GroupResults_AnyFixture(Tail(rs), name)
         ELSE GroupResults_AnyFixture(Tail(rs), name)

RECURSIVE GroupResults_KeepAborted(_, _)
GroupResults_KeepAborted(rs, name) ==
    IF rs = <<>> THEN <<>>
    ELSE IF Head(rs).fixtureName = name
         THEN <<Head(rs)>> \o GroupResults_KeepAborted(Tail(rs), name)
         ELSE GroupResults_KeepAborted(Tail(rs), name)

\* for (result of results) if (!result.aborted) resultsByFixture.get(name).push(result)
RECURSIVE GroupResults(_, _)
GroupResults(rs, name) ==
    IF rs = <<>> THEN <<>>
    ELSE IF ~Head(rs).aborted /\ Head(rs).fixtureName = name
         THEN <<Head(rs)>> \o GroupResults(Tail(rs), name)
         ELSE GroupResults(Tail(rs), name)

\* fixtureResults.sort((a, b) => a.runIndex - b.runIndex): a stable insertion sort
RECURSIVE InsertByRunIndex(_, _)
InsertByRunIndex(r, sorted) ==
    IF sorted = <<>> THEN <<r>>
    ELSE IF r.runIndex < Head(sorted).runIndex THEN <<r>> \o sorted
         ELSE <<Head(sorted)>> \o InsertByRunIndex(r, Tail(sorted))

RECURSIVE SortByRunIndex(_)
SortByRunIndex(rs) ==
    IF rs = <<>> THEN <<>>
    ELSE InsertByRunIndex(rs[Len(rs)], SortByRunIndex(SubSeq(rs, 1, Len(rs) - 1)))

CountedResults_NoBreak(cfg, sorted) == sorted

\* the walk over the sorted results: push, and break after a pass under earlyExit
RECURSIVE CountedResults(_, _)
CountedResults(cfg, sorted) ==
    IF sorted = <<>> THEN <<>>
    ELSE IF cfg.earlyExit /\ Head(sorted).runData.result.status = "passed"
         THEN <<Head(sorted)>>
         ELSE <<Head(sorted)>> \o CountedResults(cfg, Tail(sorted))

Reconcile(cfg, rs, name) == CountedResults(cfg, SortByRunIndex(GroupResults(rs, name)))

RunDataList(counted) == [i \in DOMAIN counted |-> counted[i].runData]

RECURSIVE BuildEvalSummaries_SkipEmpty(_, _, _)
BuildEvalSummaries_SkipEmpty(cfg, fx, rs) ==
    IF fx = <<>> THEN <<>>
    ELSE LET counted == Reconcile(cfg, rs, Head(fx))
         IN (IF counted = <<>> THEN <<>>
             ELSE <<createEvalSummary(Head(fx), RunDataList(counted))>>)
                \o BuildEvalSummaries_SkipEmpty(cfg, Tail(fx), rs)

\* for (fixture of fixtures) evalSummaries.push(createEvalSummary(name, runDataList))
RECURSIVE BuildEvalSummaries(_, _, _)
BuildEvalSummaries(cfg, fx, rs) ==
    IF fx = <<>> THEN <<>>
    ELSE <<createEvalSummary(Head(fx), RunDataList(Reconcile(cfg, rs, Head(fx))))>>
            \o BuildEvalSummaries(cfg, Tail(fx), rs)

ExitCode_PassedAtLeastOnce(evals) ==
    IF \A i \in DOMAIN evals : evals[i].passedRuns >= 1 \/ evals[i].totalRuns = 0 THEN 0 ELSE 1

ExitCode_AnyPassed(evals) ==
    IF \E i \in DOMAIN evals : evals[i].passedRuns = evals[i].totalRuns THEN 0 ELSE 1

\* allPassed = results.evals.every(e => e.passedRuns === e.totalRuns); allPassed ? 0 : 1
ExitCode(evals) ==
    IF \A i \in DOMAIN evals : evals[i].passedRuns = evals[i].totalRuns THEN 0 ELSE 1

\* Number.prototype.toFixed(0) of the quotient q[1]/q[2], q[1] >= 0
toFixed0(q) == ToString((2 * q[1] + q[2]) \div (2 * q[2]))

saveRun_PathWithoutFile(runData) ==
    [files |-> ("result.json" :> (("transcriptPath" :> "./transcript.jsonl") @@ runData.result))
                  @@ Property(Has(runData, "transcript") /\ Truthy(runData.transcript),
                              "transcript.jsonl", runData.transcript),
     dirs |-> {"outputs"}]

\* the body of saveResults' loop over evalSummary.runs: what it leaves in the
\* run directory, file name |-> content, result.json holding the object that
\* is serialised
saveRun(runData) ==
    LET hasTranscript == Has(runData, "transcript") /\ Truthy(runData.transcript)
        content == IF Has(runData, "outputContent") THEN runData.outputContent ELSE NoProperty
        hasEval == Has(content, "eval") /\ Truthy(content.eval)
        written == IF Has(content, "scripts")
                   THEN {n \in DOMAIN content.scripts : Truthy(content.scripts[n])}
                   ELSE {}
        scriptFiles == [f \in {"outputs/" \o n \o ".txt" : n \in written} |->
                           content.scripts[CHOOSE n \in written : f = "outputs/" \o n \o ".txt"]]
        outputPaths ==
            Property(Has(content, "scripts"), "scripts",
                     [n \in written |-> "./outputs/" \o n \o ".txt"])
              @@ Property(hasEval, "eval", "./outputs/eval.txt")
        resultWithPaths ==
            Property(hasEval \/ written # {}, "outputPaths", outputPaths)
              @@ Property(hasTranscript, "transcriptPath", "./transcript.jsonl")
              @@ runData.result
    IN [files |-> ("result.json" :> resultWithPaths)
                     @@ scriptFiles
                     @@ Property(hasEval, "outputs/eval.txt", content.eval)
                     @@ Property(hasTranscript, "transcript.jsonl", runData.transcript),
        dirs |-> {"outputs"}]

RunDir_ZeroBased(i) == "run-" \o ToString(i)

\* `run-${i + 1}` for the loop index i
RunDir(i) == "run-" \o ToString(i + 1)

\* saveResults for one EvalSummary: summary.json and the run-<n> directories;
\* run[n] is what the loop leaves for evalSummary.runs[n - 1], `dir` its directory
saveResults(evalSummary) ==
    [summary |-> [totalRuns |-> evalSummary.totalRuns,
                  passedRuns |-> evalSummary.passedRuns,
                  passRate |-> toFixed0(evalSummary.passRate) \o "%",
                  meanDuration |-> evalSummary.meanDuration],
     run |-> [n \in 1..Len(evalSummary.runs) |->
                 [dir |-> RunDir(n - 1)] @@ saveRun(evalSummary.runs[n])]]

\* the number of saveResults calls recorded in `store`
SaveCalls(st) == IF Has(st, "saves") THEN st.saves ELSE 0


\* ------------------------------------------------------------------------
\* Initial state: runExperiment has built abortControllers and attempts
\* ------------------------------------------------------------------------
Init ==
    /\ config \in [runs : 1..MaxRuns, earlyExit : BOOLEAN]
    /\ \E n \in 1..MaxFixtures :
          /\ n * config.runs <= MaxAttempts
          /\ fixtures = [p \in 1..n |-> p]
    /\ attempts = BuildAttempts(fixtures, config.runs)
    /\ phase = "launching"
    /\ launched = 0
    /\ pc = [k \in DOMAIN attempts |-> "pending"]
    /\ abortControllers = [p \in DOMAIN fixtures |-> FALSE]
    /\ agentSignal = [k \in DOMAIN attempts |-> "undefined"]
    /\ listener = [k \in DOMAIN attempts |-> FALSE]
    /\ agentAborted = [k \in DOMAIN attempts |-> FALSE]
    /\ agentCalls = [p \in DOMAIN fixtures |-> 0]
    /\ results = [k \in DOMAIN attempts |-> NoResult]
    /\ natural = [k \in DOMAIN attempts |-> "none"]
    /\ evalSummaries = <<>>
    /\ countedRuns = <<>>
    /\ exitCode = -1
    /\ agent = Unused
    /\ store = Unused

\* ------------------------------------------------------------------------
\* Actions
\* ------------------------------------------------------------------------

LaunchAttempt_OneAtATime ==
    /\ phase \in {"launching", "awaiting"}
    /\ launched < Len(attempts)
    /\ \A j \in 1..launched : pc[j] = "settled"
    /\ LET k == launched + 1
           f == attempts[k].fixture
       IN /\ launched' = k
          /\ phase' = "awaiting"
          /\ IF abortControllers[f]
             THEN /\ results' = [results EXCEPT ![k] = AbortedAttemptResult(attempts[k], 0)]
                  /\ pc' = [pc EXCEPT ![k] = "settled"]
                  /\ UNCHANGED <<agentSignal, listener, agentCalls>>
             ELSE /\ agentCalls' = [agentCalls EXCEPT ![f] = @ + 1]
                  /\ agentSignal' = [agentSignal EXCEPT ![k] = SignalOption(config)]
                  /\ listener' = [listener EXCEPT ![k] = (SignalOption(config) = "signal")]
                  /\ pc' = [pc EXCEPT ![k] = "running"]
                  /\ UNCHANGED results
    /\ UNCHANGED <<config, fixtures, attempts, abortControllers, agentAborted,
                   natural, evalSummaries, countedRuns,
                   exitCode>>

\* attempts.map(runAttempt): the synchronous part of the next runAttempt, up to
\* its await of agent.run (which itself runs up to its first await)
LaunchAttempt ==
    /\ phase = "launching"
    /\ launched < Len(attempts)
    /\ LET k == launched + 1
           f == attempts[k].fixture
       IN /\ launched' = k
          /\ phase' = IF k = Len(attempts) THEN "awaiting" ELSE "launching"
          /\ IF abortControllers[f]
             THEN /\ results' = [results EXCEPT ![k] = AbortedAttemptResult(attempts[k], 0)]
                  /\ pc' = [pc EXCEPT ![k] = "settled"]
                  /\ UNCHANGED <<agentSignal, listener, agentCalls>>
             ELSE /\ agentCalls' = [agentCalls EXCEPT ![f] = @ + 1]
                  /\ agentSignal' = [agentSignal EXCEPT ![k] = SignalOption(config)]
                  /\ listener' = [listener EXCEPT ![k] = (SignalOption(config) = "signal")]
                  /\ pc' = [pc EXCEPT ![k] = "running"]
                  /\ UNCHANGED results
    /\ UNCHANGED <<config, fixtures, attempts, abortControllers, agentAborted,
                   natural, evalSummaries, countedRuns,
                   exitCode>>

\* the rest of runAttempt once agent.run has resolved with agentResult
ResolveAttempt(k, agentResult, nat) ==
    LET f == attempts[k].fixture
        runData == agentResultToEvalRunData(agentResult)
    IN /\ pc' = [pc EXCEPT ![k] = "settled"]
       /\ listener' = [listener EXCEPT ![k] = FALSE]
       /\ natural' = [natural EXCEPT ![k] = nat]
       /\ IF IsAbortedResult(agentResult)
          THEN /\ results' = [results EXCEPT ![k] =
                      AbortedAttemptResult(attempts[k], agentResult.duration \div MsPerSecond)]
               /\ UNCHANGED <<abortControllers, agentAborted>>
          ELSE /\ results' = [results EXCEPT ![k] =
                      [fixtureName |-> f, runIndex |-> attempts[k].runIndex,
                       runData |-> runData, aborted |-> FALSE]]
               /\ IF ShouldAbort(config, runData)
                  THEN /\ abortControllers' = [abortControllers EXCEPT ![f] = abort(@)]
                       /\ agentAborted' = AbortFlags(f, k)
                  ELSE UNCHANGED <<abortControllers, agentAborted>>

\* agent.run of attempt k ran to its end and returned a result whose error
\* text, if any, is not one of the abort texts
AgentReturns(k) ==
    /\ phase \in {"awaiting", "rejected"}
    /\ pc[k] = "running"
    /\ \E agentResult \in AgentRunResults :
          /\ agentResult.error \notin AbortTexts
          /\ ResolveAttempt(k, agentResult, IF agentResult.success THEN "passed" ELSE "failed")
    /\ UNCHANGED <<config, fixtures, attempts, phase, launched, agentSignal,
                   agentCalls, evalSummaries, countedRuns,
                   exitCode>>

\* agent.run of attempt k ran to its end and failed with an error text that
\* reads 'Aborted' or 'Aborted before start' although its flag was never set
\* (the tool printed it, or the thrown error carried it as its message)
AgentFailsWithAbortText(k) ==
    /\ phase \in {"awaiting", "rejected"}
    /\ pc[k] = "running"
    /\ ~agentAborted[k]
    /\ \E agentResult \in AgentRunResults :
          /\ agentResult.error \in AbortTexts
          /\ ResolveAttempt(k, agentResult, "failed")
    /\ UNCHANGED <<config, fixtures, attempts, phase, launched, agentSignal,
                   agentCalls, evalSummaries, countedRuns,
                   exitCode>>

\* agent.run of attempt k saw its `aborted` flag (the check before the sandbox
\* is created, or the catch block) and returned error 'Aborted'
AgentObservesAbort(k) ==
    /\ phase \in {"awaiting", "rejected"}
    /\ pc[k] = "running"
    /\ agentAborted[k]
    /\ \E d \in AgentDurations, nat \in {"passed", "failed"} :
          ResolveAttempt(k, [success |-> FALSE, error |-> "Aborted", duration |-> d], nat)
    /\ UNCHANGED <<config, fixtures, attempts, phase, launched, agentSignal,
                   agentCalls, evalSummaries, countedRuns,
                   exitCode>>

\* agent.run of attempt k rejected (sandbox.stop() threw in its finally block):
\* runAttempt has no catch, so Promise.all and runExperiment reject
AgentThrows(k) ==
    /\ phase \in {"awaiting", "rejected"}
    /\ pc[k] = "running"
    /\ pc' = [pc EXCEPT ![k] = "threw"]
    /\ listener' = [listener EXCEPT ![k] = FALSE]
    /\ phase' = "rejected"
    /\ UNCHANGED <<config, fixtures, attempts, launched, abortControllers, agentSignal,
                   agentAborted, agentCalls, results, natural, evalSummaries, countedRuns,
                   exitCode>>

Finish_AfterFirstOutcome ==
    /\ phase = "awaiting"
    /\ \E k \in DOMAIN attempts : pc[k] = "settled"
    /\ LET counted == [p \in DOMAIN fixtures |-> Reconcile(config, results, fixtures[p])]
           evals == BuildEvalSummaries(config, fixtures, results)
       IN /\ evalSummaries' = evals
          /\ countedRuns' = [p \in DOMAIN fixtures |->
                 [i \in DOMAIN counted[p] |-> counted[p][i].runIndex]]
          /\ store' = [pc |-> "saved", saves |-> SaveCalls(store) + 1,
                       disk |-> [p \in DOMAIN evals |-> saveResults(evals[p])]]
    /\ phase' = "done"
    /\ UNCHANGED <<config, fixtures, attempts, launched, pc, abortControllers, agentSignal,
                   listener, agentAborted, agentCalls, results, natural, exitCode>>

PromiseAllResolved_UnlessAborted ==
    /\ phase = "awaiting"
    /\ \A k \in DOMAIN attempts : pc[k] = "settled" /\ ~results[k].aborted

\* `await Promise.all(...)` resumes: every attempt was started and every
\* runAttempt promise is fulfilled
PromiseAllResolved ==
    /\ phase = "awaiting"
    /\ \A k \in DOMAIN attempts : pc[k] = "settled"

\* Promise.all resolved: group, reconcile, summarise, save, return
Finish ==
    /\ PromiseAllResolved
    /\ LET counted == [p \in DOMAIN fixtures |-> Reconcile(config, results, fixtures[p])]
           evals == BuildEvalSummaries(config, fixtures, results)
       IN /\ evalSummaries' = evals
          /\ countedRuns' = [p \in DOMAIN fixtures |->
                 [i \in DOMAIN counted[p] |-> counted[p][i].runIndex]]
          /\ store' = [pc |-> "saved", saves |-> SaveCalls(store) + 1,
                       disk |-> [p \in DOMAIN evals |-> saveResults(evals[p])]]
    /\ phase' = "done"
    /\ UNCHANGED <<config, fixtures, attempts, launched, pc, abortControllers, agentSignal,
                   listener, agentAborted, agentCalls, results, natural, exitCode>>

\* the run command after `await runExperiment(...)` returned: process.exit
CliExit ==
    /\ phase = "done"
    /\ exitCode' = ExitCode(evalSummaries)
    /\ phase' = "exited"
    /\ UNCHANGED <<config, fixtures, attempts, launched, pc, abortControllers, agentSignal,
                   listener, agentAborted, agentCalls, results, natural, evalSummaries,
                   countedRuns>>

\* the run command's catch block after runExperiment rejected: process.exit(1)
CliExitOnError ==
    /\ phase = "rejected"
    /\ exitCode' = 1
    /\ phase' = "exited"
    /\ UNCHANGED <<config, fixtures, attempts, launched, pc, abortControllers, agentSignal,
                   listener, agentAborted, agentCalls, results, natural, evalSummaries,
                   countedRuns>>

Next ==
    \/ LaunchAttempt /\ UNCHANGED <<agent, store>>
    \/ \E k \in DOMAIN attempts : AgentReturns(k) /\ UNCHANGED <<agent, store>>
    \/ \E k \in DOMAIN attempts : AgentFailsWithAbortText(k) /\ UNCHANGED <<agent, store>>
    \/ \E k \in DOMAIN attempts : AgentObservesAbort(k) /\ UNCHANGED <<agent, store>>
    \/ \E k \in DOMAIN attempts : AgentThrows(k) /\ UNCHANGED <<agent, store>>
    \/ Finish /\ UNCHANGED agent
    \/ CliExit /\ UNCHANGED <<agent, store>>
    \/ CliExitOnError /\ UNCHANGED <<agent, store>>

Spec == Init /\ [][Next]_vars

\* the runs in which an agent result reads 'Aborted' only when the agent's
\* abort handler had run
NextCooperative ==
    \/ LaunchAttempt /\ UNCHANGED <<agent, store>>
    \/ \E k \in DOMAIN attempts : AgentReturns(k) /\ UNCHANGED <<agent, store>>
    \/ \E k \in DOMAIN attempts : AgentObservesAbort(k) /\ UNCHANGED <<agent, store>>
    \/ \E k \in DOMAIN attempts : AgentThrows(k) /\ UNCHANGED <<agent, store>>
    \/ Finish /\ UNCHANGED agent
    \/ CliExit /\ UNCHANGED <<agent, store>>
    \/ CliExitOnError /\ UNCHANGED <<agent, store>>

SpecCooperative == Init /\ [][NextCooperative]_vars

\* the runner when every agent.run returns a result (none rejects); the event
\* loop runs every continuation that is ready, and every invocation returns
NextReturning ==
    \/ LaunchAttempt /\ UNCHANGED <<agent, store>>
    \/ \E k \in DOMAIN attempts : AgentReturns(k) /\ UNCHANGED <<agent, store>>
    \/ \E k \in DOMAIN attempts : AgentFailsWithAbortText(k) /\ UNCHANGED <<agent, store>>
    \/ \E k \in DOMAIN attempts : AgentObservesAbort(k) /\ UNCHANGED <<agent, store>>
    \/ Finish /\ UNCHANGED agent
    \/ CliExit /\ UNCHANGED <<agent, store>>


\* The continuation of `await Promise.all(...)`: the step from a state where
\* Promise.all is resolved to phase "done".  Under NextReturning only Finish
\* takes that step, and Finish is enabled exactly when PromiseAllResolved.
Continuation == PromiseAllResolved /\ phase' = "done"

\* The event loop runs every ready callback: the synchronous map keeps
\* starting attempts, every agent invocation eventually returns (the premise
\* of the liveness claim), and a resolved Promise.all resumes runExperiment.
Fairness ==
    /\ WF_vars(LaunchAttempt /\ UNCHANGED <<agent, store>>)
    /\ WF_vars(\E k \in DOMAIN attempts : AgentReturns(k) /\ UNCHANGED <<agent, store>>)
    /\ WF_phase(Continuation)

SpecReturning == Init /\ [][NextReturning]_vars /\ Fairness

\* runAttempt entered with the controller of its fixture in either state: the
\* closure applied to every value its `controller.signal.aborted` read can
\* yield.  runExperiment itself builds every controller fresh and launches
\* all attempts before any of them can resume, so under Spec the read is
\* always false.
InitPreCancelled ==
    /\ config \in [runs : 1..MaxRuns, earlyExit : BOOLEAN]
    /\ \E n \in 1..MaxFixtures :
          /\ n * config.runs <= MaxAttempts
          /\ fixtures = [p \in 1..n |-> p]
    /\ attempts = BuildAttempts(fixtures, config.runs)
    /\ phase = "launching"
    /\ launched = 0
    /\ pc = [k \in DOMAIN attempts |-> "pending"]
    /\ abortControllers \in [DOMAIN fixtures -> BOOLEAN]
    /\ \E p \in DOMAIN fixtures : abortControllers[p]
    /\ agentSignal = [k \in DOMAIN attempts |-> "undefined"]
    /\ listener = [k \in DOMAIN attempts |-> FALSE]
    /\ agentAborted = [k \in DOMAIN attempts |-> FALSE]
    /\ agentCalls = [p \in DOMAIN fixtures |-> 0]
    /\ results = [k \in DOMAIN attempts |-> NoResult]
    /\ natural = [k \in DOMAIN attempts |-> "none"]
    /\ evalSummaries = <<>>
    /\ countedRuns = <<>>
    /\ exitCode = -1
    /\ agent = Unused
    /\ store = Unused

SpecPreCancelled == InitPreCancelled /\ [][Next]_vars

\* the runner's variables in the specifications of a single function: one
\* fixture, named 1, and no attempt
RunnerUnused ==
    /\ config = [runs |-> 1, earlyExit |-> FALSE]
    /\ fixtures = <<1>>
    /\ attempts = <<>>
    /\ phase = "unused"
    /\ launched = 0
    /\ pc = <<>>
    /\ abortControllers = <<>>
    /\ agentSignal = <<>>
    /\ listener = <<>>
    /\ agentAborted = <<>>
    /\ agentCalls = <<>>
    /\ results = <<>>
    /\ natural = <<>>
    /\ evalSummaries = <<>>
    /\ countedRuns = <<>>
    /\ exitCode = -1

\* ------------------------------------------------------------------------
\* One agent.run invocation (claude-code and codex), await by await
\* ------------------------------------------------------------------------

\* a file is its directory and its base name, the name cut before its suffix
File(dir, stem, ext) == [dir |-> dir, stem |-> stem, ext |-> ext]

BaseName(file) == file.stem \o file.ext

\* a pattern '*<text>' (wild) or a whole name
Pattern(wild, text) == [wild |-> wild, text |-> text]

TEST_FILE_PATTERNS ==
    {Pattern(TRUE, ".test.tsx"), Pattern(TRUE, ".test.ts"),
     Pattern(FALSE, "EVAL.ts"), Pattern(FALSE, "PROMPT.md")}

\* filename.endsWith(ext) for '*.' patterns, filename === pattern otherwise
Matches(file, pattern) ==
    IF pattern.wild THEN file.ext = pattern.text ELSE BaseName(file) = pattern.text

isTestFilePattern(file) == \E pattern \in TEST_FILE_PATTERNS : Matches(file, pattern)

splitTestFiles(files) ==
    [workspaceFiles |-> {f \in files : ~isTestFilePattern(f)},
     testFiles |-> {f \in files : isTestFilePattern(f)}]

\* the -name tests of verifyNoTestFiles' find command
FindNames ==
    {Pattern(TRUE, ".test.tsx"), Pattern(TRUE, ".test.ts"), Pattern(FALSE, "EVAL.ts")}

\* stdout of the find command: what it prints outside ./node_modules
FoundTests(session) ==
    {f \in session : f.dir # "node_modules" /\ \E name \in FindNames : Matches(f, name)}

\* collectLocalFiles(fixturePath) of the fixture the invocation is given
FixtureFiles ==
    {File(".", "PROMPT", ".md"), File(".", "EVAL", ".ts"), File(".", "package", ".json"),
     File("src", "index", ".ts"), File("src", "index", ".test.tsx"),
     File(".", "util", ".test.ts")}

\* the files an options.setup callback may write with sandbox.writeFiles
SetupFiles ==
    {File(".claude", "settings", ".json"), File(".", "PROMPT", ".md"), File(".", "EVAL", ".ts")}

AgentKinds == {"claude-code", "codex"}

abortHandler_StopsAgain(a) ==
    [a EXCEPT !.aborted = TRUE,
              !.stopCalls = IF a.sandbox /\ ~a.sandboxStopped THEN @ + 1 ELSE @]

\* the 'abort' listener of the claude-code agent
abortHandler(a) ==
    [a EXCEPT !.aborted = TRUE,
              !.sandboxStopped = @ \/ a.sandbox,
              !.stopCalls = IF a.sandbox /\ ~a.sandboxStopped THEN @ + 1 ELSE @]

\* a return statement or the catch block has produced `result`: the
\* synchronous part of the finally block, up to its await of sandbox.stop()
Finally(a, result) ==
    LET stops == IF a.kind = "claude-code" THEN a.sandbox /\ ~a.sandboxStopped ELSE a.sandbox
    IN [a EXCEPT !.result = result,
                 !.listener = FALSE,
                 !.sandboxStopped = IF a.kind = "claude-code" THEN @ \/ stops ELSE @,
                 !.stopCalls = IF stops THEN @ + 1 ELSE @,
                 !.pc = IF stops THEN "stop" ELSE "returned"]

Pending == [success |-> FALSE, error |-> "pending"]

Failure(error) == [success |-> FALSE, error |-> error]

\* the catch block
Catch(a, message) ==
    Finally(a, Failure(IF a.kind = "claude-code" /\ a.aborted THEN "Aborted" ELSE message))

InitAgent ==
    /\ \E kind \in AgentKinds, signal \in {"undefined", "live", "aborted"},
          hasSetup \in BOOLEAN, writes \in SUBSET SetupFiles :
          /\ hasSetup \/ writes = {}
          /\ agent = [kind |-> kind, signal |-> signal, hasSetup |-> hasSetup,
                      setupWrites |-> writes, pc |-> "entry", aborted |-> FALSE,
                      listener |-> FALSE, sandbox |-> FALSE, sandboxStopped |-> FALSE,
                      stopCalls |-> 0, session |-> {}, testFiles |-> {},
                      testsUploaded |-> FALSE, toolExit |-> -1, cancelledAt |-> "never",
                      result |-> Pending]
    /\ store = Unused
    /\ RunnerUnused

\* an action of the invocation: agent becomes `a`, nothing else changes
AgentStep(a) == agent' = a /\ UNCHANGED <<runnerVars, store>>

\* the invocation resumes from its await named `stage` with the awaited
\* promise fulfilled
Resumes(stage) == agent.pc = stage

\* run() up to its first await: the claude-code agent looks at the signal
Run ==
    /\ Resumes("entry")
    /\ AgentStep(
          IF agent.kind = "claude-code" /\ agent.signal = "aborted"
          THEN [agent EXCEPT !.result = Failure("Aborted before start"), !.pc = "returned"]
          ELSE [agent EXCEPT !.listener = agent.kind = "claude-code" /\ agent.signal = "live",
                             !.pc = "collectLocalFiles"])

CollectLocalFiles ==
    /\ Resumes("collectLocalFiles")
    /\ AgentStep(
          IF agent.kind = "claude-code" /\ agent.aborted
          THEN Finally(agent, Failure("Aborted"))
          ELSE [agent EXCEPT !.testFiles = splitTestFiles(FixtureFiles).testFiles,
                             !.pc = "create"])

\* sandbox = await SandboxManager.create(...)
CreateSandbox ==
    /\ Resumes("create")
    /\ AgentStep([agent EXCEPT !.sandbox = TRUE, !.pc = "uploadWorkspaceFiles"])

UploadWorkspaceFiles ==
    /\ Resumes("uploadWorkspaceFiles")
    /\ AgentStep([agent EXCEPT !.session = @ \cup splitTestFiles(FixtureFiles).workspaceFiles,
                               !.pc = IF agent.hasSetup THEN "setup" ELSE "npmInstall"])

Setup ==
    /\ Resumes("setup")
    /\ AgentStep([agent EXCEPT !.session = @ \cup agent.setupWrites, !.pc = "npmInstall"])

NpmInstall ==
    /\ Resumes("npmInstall")
    /\ \E installExitCode \in {0, 1} :
          AgentStep(IF installExitCode # 0
                    THEN Catch(agent, "npm install failed")
                    ELSE [agent EXCEPT !.pc = "cliInstall"])

CliInstall ==
    /\ Resumes("cliInstall")
    /\ \E cliExitCode \in {0, 1} :
          AgentStep(IF cliExitCode # 0
                    THEN Catch(agent, "CLI install failed")
                    ELSE [agent EXCEPT !.pc = IF agent.kind = "codex" THEN "codexConfig"
                                                                      ELSE "verifyNoTestFiles"])

\* the codex agent writes ~/.codex/config.toml
CodexConfig ==
    /\ Resumes("codexConfig")
    /\ AgentStep([agent EXCEPT !.pc = "verifyNoTestFiles"])

\* verifyNoTestFiles resolves or throws; after it the tool is started
VerifyNoTestFiles ==
    /\ Resumes("verifyNoTestFiles")
    /\ AgentStep(IF FoundTests(agent.session) # {}
                 THEN Catch(agent, "Test files found in sandbox before agent run")
                 ELSE [agent EXCEPT !.pc = "tool"])

\* the coding tool exits
ToolExits ==
    /\ Resumes("tool")
    /\ \E toolExitCode \in {0, 1} :
          AgentStep(IF toolExitCode # 0
                    THEN Finally([agent EXCEPT !.toolExit = toolExitCode],
                                 Failure("tool exited with non-zero code"))
                    ELSE [agent EXCEPT !.toolExit = toolExitCode, !.pc = "uploadTestFiles"])

UploadTestFiles ==
    /\ Resumes("uploadTestFiles")
    /\ AgentStep([agent EXCEPT !.session = @ \cup agent.testFiles,
                               !.testsUploaded = TRUE,
                               !.pc = "createVitestConfig"])

CreateVitestConfig ==
    /\ Resumes("createVitestConfig")
    /\ AgentStep([agent EXCEPT !.pc = IF agent.kind = "claude-code" THEN "captureTranscript"
                                                                    ELSE "runValidation"])

\* best effort: captureTranscript catches what it awaits
CaptureTranscript ==
    /\ Resumes("captureTranscript")
    /\ AgentStep([agent EXCEPT !.pc = "runValidation"])

RunValidation ==
    /\ Resumes("runValidation")
    /\ \E allPassed \in BOOLEAN :
          AgentStep([agent EXCEPT !.result = [success |-> allPassed, error |-> "validated"],
                                 !.pc = "captureGeneratedFiles"])

\* the last await of the try block, then `return {success: allPassed, ...}`
CaptureGeneratedFiles ==
    /\ Resumes("captureGeneratedFiles")
    /\ AgentStep(Finally(agent, [success |-> agent.result.success, error |-> "undefined"]))

\* the awaits whose rejection reaches the catch block
RejectingAwaits ==
    {"collectLocalFiles", "create", "uploadWorkspaceFiles", "setup", "npmInstall",
     "cliInstall", "codexConfig", "verifyNoTestFiles", "tool", "uploadTestFiles",
     "createVitestConfig", "runValidation", "captureGeneratedFiles"}

\* the awaited promise rejects (a sandbox that is stopped or unreachable, a
\* file that cannot be read, a setup callback that throws)
AwaitRejects ==
    /\ agent.pc \in RejectingAwaits
    /\ AgentStep(Catch(agent, "rejected"))

\* await sandbox.stop() of the finally block
StopReturns ==
    /\ Resumes("stop")
    /\ AgentStep([agent EXCEPT !.pc = "returned"])

StopRejects ==
    /\ Resumes("stop")
    /\ AgentStep([agent EXCEPT !.pc = "rejected"])

InFlight == agent.pc \notin {"unused", "entry", "returned", "rejected"}

\* the caller aborts the signal it gave to the invocation
Abort ==
    /\ InFlight
    /\ agent.signal = "live"
    /\ LET a == [agent EXCEPT !.signal = "aborted", !.cancelledAt = agent.pc]
       IN AgentStep(IF agent.listener THEN abortHandler(a) ELSE a)

NextAgent ==
    \/ Run
    \/ CollectLocalFiles
    \/ CreateSandbox
    \/ UploadWorkspaceFiles
    \/ Setup
    \/ NpmInstall
    \/ CliInstall
    \/ CodexConfig
    \/ VerifyNoTestFiles
    \/ ToolExits
    \/ UploadTestFiles
    \/ CreateVitestConfig
    \/ CaptureTranscript
    \/ RunValidation
    \/ CaptureGeneratedFiles
    \/ AwaitRejects
    \/ StopReturns
    \/ StopRejects
    \/ Abort

SpecAgent == InitAgent /\ [][NextAgent]_vars

\* ------------------------------------------------------------------------
\* createEvalSummary and saveResults applied to one fixture's counted runs
\* ------------------------------------------------------------------------
MaxStoredRuns == 2

ScriptNames == {"build"}

Texts == {"", "text"}

BoundedSeq(S, n) == UNION {[1..m -> S] : m \in 0..n}

\* the agent results that differ in what saveResults writes for them
StoredAgentResults ==
    {[success |-> TRUE, error |-> "undefined", duration |-> 1000] @@ transcript @@ test @@ scripts :
        transcript \in {NoProperty} \cup {"transcript" :> t : t \in Texts},
        test \in {NoProperty} \cup {"testResult" :> [output |-> t] : t \in Texts},
        scripts \in {NoProperty} \cup
            {"scriptsResults" :> r :
                r \in UNION {[names -> [output : Texts]] : names \in SUBSET ScriptNames}}}

InitStore ==
    /\ store \in [pc : {"input"}, agentResults : BoundedSeq(StoredAgentResults, MaxStoredRuns)]
    /\ agent = Unused
    /\ RunnerUnused

\* the counted runs of fixtures[1] are summarised
Summarise ==
    /\ store.pc = "input"
    /\ LET runData == [i \in DOMAIN store.agentResults |->
                          agentResultToEvalRunData(store.agentResults[i])]
       IN store' = [pc |-> "summarised", runData |-> runData,
                    evalSummary |-> createEvalSummary(fixtures[1], runData)]
    /\ UNCHANGED <<runnerVars, agent>>

\* the summary is written to disk
SaveResults ==
    /\ store.pc = "summarised"
    /\ store' = [pc |-> "saved", runData |-> store.runData,
                 evalSummary |-> store.evalSummary,
                 disk |-> saveResults(store.evalSummary)]
    /\ UNCHANGED <<runnerVars, agent>>

NextStore ==
    \/ Summarise
    \/ SaveResults

SpecStore == InitStore /\ [][NextStore]_vars

\* createEvalSummary over run lists that differ in status, error and duration
InitSummary ==
    /\ store \in [pc : {"input"}, agentResults : BoundedSeq(AgentRunResults, MaxRuns)]
    /\ agent = Unused
    /\ RunnerUnused

SpecSummary == InitSummary /\ [][NextStore]_vars

\* ------------------------------------------------------------------------
\* The earlier, sequential runExperiment: one agent.run after another in
\* run-index order, stopping after the first pass under earlyExit.  Its
\* input is the status each attempt reaches when left to run to its end.
\* ------------------------------------------------------------------------
RECURSIVE SequentialRunStatuses(_, _)
SequentialRunStatuses(cfg, statuses) ==
    IF statuses = <<>> THEN <<>>
    ELSE IF cfg.earlyExit /\ Head(statuses) = "passed"
         THEN <<Head(statuses)>>
         ELSE <<Head(statuses)>> \o SequentialRunStatuses(cfg, Tail(statuses))

\* ------------------------------------------------------------------------
\* Vocabulary of the properties
\* ------------------------------------------------------------------------
Done == phase = "done"

FixtureAttempts(p) == {k \in DOMAIN attempts : attempts[k].fixture = fixtures[p]}

AttemptIndex(p, runIndex) == (p - 1) * config.runs + runIndex + 1

NaturalStatuses(p) == [i \in 1..config.runs |-> natural[AttemptIndex(p, i - 1)]]

PassedIn(statuses) == Cardinality({i \in DOMAIN statuses : statuses[i] = "passed"})

CountedStatus(p, i) == evalSummaries[p].runs[i].result.status

\* ------------------------------------------------------------------------
\* Properties
\* ------------------------------------------------------------------------

\* C1: with earlyExit, when a fixture's counted sequence contains a passed run,
\* the counted runs are exactly the run indices 0..k in ascending order, k
\* being the run index of the first passing counted run.
C1_CountedIsPrefixToFirstPass ==
    (Done /\ config.earlyExit) =>
        \A p \in DOMAIN fixtures :
            LET passing == {i \in DOMAIN countedRuns[p] : CountedStatus(p, i) = "passed"}
            IN passing # {} =>
                 LET first == CHOOSE i \in passing : \A j \in passing : i <= j
                     k == countedRuns[p][first]
                 IN countedRuns[p] = [i \in 1..(k + 1) |-> i - 1]

\* C2: with earlyExit, the concurrent runExperiment reports for every fixture
\* the totalRuns and passedRuns that the sequential runExperiment reports for
\* the same per-run-index outcomes.
C2_SameAsSequential ==
    (Done /\ config.earlyExit) =>
        \A p \in DOMAIN fixtures :
            LET seq == SequentialRunStatuses(config, NaturalStatuses(p))
            IN /\ evalSummaries[p].totalRuns = Len(seq)
               /\ evalSummaries[p].passedRuns = PassedIn(seq)

\* C3: without earlyExit the agent is invoked for all `runs` attempts of every
\* fixture and every summary has totalRuns = runs.
C3_NoEarlyExitCountsAll ==
    (Done /\ ~config.earlyExit) =>
        \A p \in DOMAIN fixtures :
            /\ agentCalls[p] = config.runs
            /\ evalSummaries[p].totalRuns = config.runs

\* C4: with earlyExit the number of agent.run invocations made for a fixture
\* equals the fixture's reported totalRuns.
C4_InvocationsEqualTotalRuns ==
    (Done /\ config.earlyExit) =>
        \A p \in DOMAIN fixtures : agentCalls[p] = evalSummaries[p].totalRuns

\* C5: with earlyExit and every attempt of a fixture failing, the fixture's
\* signal is never cancelled, all `runs` attempts invoke the agent, and the
\* summary has totalRuns = runs and passedRuns = 0.
C5_AllFailExhaustsRuns ==
    (Done /\ config.earlyExit) =>
        \A p \in DOMAIN fixtures :
            (\A k \in FixtureAttempts(p) : natural[k] = "failed") =>
                /\ ~abortControllers[p]
                /\ agentCalls[p] = config.runs
                /\ evalSummaries[p].totalRuns = config.runs
                /\ evalSummaries[p].passedRuns = 0

\* C6: fixtures are independent.  A step of an attempt of one fixture leaves
\* the controller, the agent flags, the invocation count and the results of
\* every other fixture unchanged, and a fixture's summary is what reconciling
\* its own attempts alone gives.
OtherFixtureUntouched(q) ==
    /\ abortControllers'[q] = abortControllers[q]
    /\ agentCalls'[q] = agentCalls[q]
    /\ \A k \in FixtureAttempts(q) :
          /\ agentAborted'[k] = agentAborted[k]
          /\ listener'[k] = listener[k]
          /\ results'[k] = results[k]
          /\ pc'[k] = pc[k]

FixtureStep(p) == \E k \in FixtureAttempts(p) : pc'[k] # pc[k]

OwnResultsOnly(q) ==
    [k \in DOMAIN attempts |-> IF attempts[k].fixture = fixtures[q] THEN results[k] ELSE NoResult]

SummaryFromOwnAttempts(q) ==
    LET own == Reconcile(config, OwnResultsOnly(q), fixtures[q])
    IN evalSummaries[q] = createEvalSummary(fixtures[q], [i \in DOMAIN own |-> own[i].runData])

C6_FixturesIndependent ==
    /\ [][\A p, q \in DOMAIN fixtures :
             (p # q /\ FixtureStep(p)) => OtherFixtureUntouched(q)]_vars
    /\ [](Done => \A q \in DOMAIN fixtures : SummaryFromOwnAttempts(q))

C6_Witness ==
    /\ Len(fixtures) = 2
    /\ abortControllers[1]
    /\ ~abortControllers[2]
    /\ \E k \in FixtureAttempts(1) : agentAborted[k]
    /\ \E k \in FixtureAttempts(2) : pc[k] = "running" /\ listener[k] /\ ~agentAborted[k]

\* C7: an attempt whose agent invocation raised an error is recorded as a failed
\* outcome and runExperiment still returns its results.
C7_ThrownErrorBecomesFailedOutcome ==
    \A k \in DOMAIN attempts :
        pc[k] = "threw" =>
            /\ results[k].runData.result.status = "failed"
            /\ phase # "rejected"

\* C8: without earlyExit no agent invocation receives a cancellation signal and
\* no fixture's signal is ever cancelled.
C8_NoSignalWhenDisabled ==
    ~config.earlyExit =>
        /\ \A k \in DOMAIN attempts : agentSignal[k] = "undefined" /\ ~listener[k] /\ ~agentAborted[k]
        /\ \A p \in DOMAIN fixtures : ~abortControllers[p]

C8_Witness ==
    /\ ~config.earlyExit
    /\ Done
    /\ \E k \in DOMAIN attempts : ~results[k].aborted /\ results[k].runData.result.status = "passed"

\* C9: in every returned ExperimentResults, 0 <= passedRuns <= totalRuns <= runs
\* for every fixture.
C9_SummaryBounds ==
    Done =>
        \A p \in DOMAIN fixtures :
            /\ 0 <= evalSummaries[p].passedRuns
            /\ evalSummaries[p].passedRuns <= evalSummaries[p].totalRuns
            /\ evalSummaries[p].totalRuns <= config.runs

C9_Witness ==
    /\ Done
    /\ Len(fixtures) = 2
    /\ \E p \in DOMAIN fixtures :
          /\ 0 < evalSummaries[p].passedRuns
          /\ evalSummaries[p].passedRuns < evalSummaries[p].totalRuns
          /\ evalSummaries[p].totalRuns = config.runs

\* C10: no outcome flagged aborted is in a counted sequence: every counted run
\* is the run data of a non-aborted attempt of the fixture, and totalRuns,
\* passedRuns and the duration sum of meanDuration are taken over those alone.
C10_AbortedNeverCounted ==
    Done =>
        \A p \in DOMAIN fixtures :
            LET idx == countedRuns[p]
                at(i) == results[AttemptIndex(p, idx[i])]
            IN /\ \A i \in DOMAIN idx :
                     /\ ~at(i).aborted
                     /\ evalSummaries[p].runs[i] = at(i).runData
               /\ \A i, j \in DOMAIN idx : i < j => idx[i] < idx[j]
               /\ evalSummaries[p].totalRuns = Len(idx)
               /\ evalSummaries[p].passedRuns =
                     Cardinality({i \in DOMAIN idx : at(i).runData.result.status = "passed"})
               /\ evalSummaries[p].meanDuration[1] =
                     SumDurations([i \in DOMAIN idx |-> at(i).runData.result])

C10_Witness ==
    /\ Done
    /\ \E p \in DOMAIN fixtures :
          /\ evalSummaries[p].totalRuns >= 1
          /\ \E k \in FixtureAttempts(p) :
                /\ results[k].aborted
                /\ results[k].runData.result.duration > 0
                /\ results[k].runData.result.duration # evalSummaries[p].runs[1].result.duration

\* C11: the returned evals hold exactly one EvalSummary per input fixture, in
\* the order of the fixtures, whatever order the attempts completed in.
C11_OneSummaryPerFixtureInOrder ==
    Done =>
        /\ Len(evalSummaries) = Len(fixtures)
        /\ \A p \in DOMAIN fixtures : evalSummaries[p].name = fixtures[p]

C11_Witness ==
    /\ Done
    /\ Len(fixtures) = 2
    /\ evalSummaries[1].totalRuns = 0
    /\ evalSummaries[2].totalRuns > 0

Returned == evalSummaries # <<>>

RecordedPass(k) ==
    /\ pc[k] = "settled"
    /\ ~results[k].aborted
    /\ results[k].runData.result.status = "passed"

\* C13: after runExperiment returned, the process exit code is 0 exactly when
\* every fixture's summary has passedRuns = totalRuns, and 1 otherwise.
C13_ExitCodeZeroIffAllPassed ==
    (phase = "exited" /\ Returned) =>
        /\ exitCode \in {0, 1}
        /\ exitCode = 0 <=>
              \A p \in DOMAIN fixtures :
                  evalSummaries[p].passedRuns = evalSummaries[p].totalRuns

C13_Witness ==
    /\ phase = "exited"
    /\ Returned
    /\ exitCode = 0
    /\ Len(fixtures) = 2
    /\ \E p \in DOMAIN fixtures : evalSummaries[p].totalRuns = 2

\* C16: with earlyExit, in every state where a non-aborted passing outcome of
\* a fixture has been recorded, that fixture's signal is cancelled.
C16_PassCancelsSignal ==
    config.earlyExit =>
        \A k \in DOMAIN attempts :
            RecordedPass(k) => abortControllers[attempts[k].fixture]

C16_Witness ==
    /\ config.earlyExit
    /\ phase = "awaiting"
    /\ \E k, j \in DOMAIN attempts :
          /\ attempts[k].fixture = attempts[j].fixture
          /\ RecordedPass(k)
          /\ pc[j] = "running"

\* a step in which attempt k records a pass although its fixture's signal was
\* cancelled before
LaterCancellationRequest(k) ==
    /\ config.earlyExit
    /\ abortControllers[attempts[k].fixture]
    /\ ~RecordedPass(k)
    /\ RecordedPass(k)'

\* C17: a fixture's signal, once cancelled, stays cancelled; a cancellation
\* request by a later passing attempt changes neither the signal nor what any
\* agent has been told, and does not make the experiment fail.
C17_SignalOneWayIdempotent ==
    [][/\ \A p \in DOMAIN abortControllers :
             abortControllers[p] => abortControllers'[p]
       /\ \A k \in DOMAIN attempts :
             LaterCancellationRequest(k) =>
                 /\ abortControllers' = abortControllers
                 /\ agentAborted' = agentAborted
                 /\ phase' = phase]_vars

C17_Witness ==
    /\ config.earlyExit
    /\ \E k, j \in DOMAIN attempts :
          /\ k # j
          /\ attempts[k].fixture = attempts[j].fixture
          /\ RecordedPass(k)
          /\ RecordedPass(j)

\* the step in which attempt k starts
Starts(k) == launched = k - 1 /\ launched' = k

\* C18: an attempt that starts when its fixture's signal is already cancelled
\* completes in that same step with aborted = true, status failed and duration
\* 0, and the agent is not invoked for it, then or later.
C18_PreCancelledAttemptAbortsAtOnce ==
    [][\A k \in DOMAIN attempts :
          /\ (Starts(k) /\ abortControllers[attempts[k].fixture]) =>
                /\ pc'[k] = "settled"
                /\ results'[k].aborted
                /\ results'[k].runData.result.status = "failed"
                /\ results'[k].runData.result.duration = 0
                /\ agentCalls' = agentCalls
                /\ agentSignal'[k] = "undefined"
          /\ (pc[k] = "settled" /\ results[k].aborted /\ agentSignal[k] = "undefined") =>
                /\ results'[k] = results[k]
                /\ agentCalls'[attempts[k].fixture] = agentCalls[attempts[k].fixture]
                      \/ \E j \in DOMAIN attempts : j # k /\ Starts(j)]_vars

C18_Witness ==
    /\ Done
    /\ Len(fixtures) = 2
    /\ \E p, q \in DOMAIN fixtures :
          /\ agentCalls[p] = 0
          /\ evalSummaries[p].totalRuns = 0
          /\ \A k \in FixtureAttempts(p) :
                results[k].aborted /\ results[k].runData.result.duration = 0
          /\ agentCalls[q] = config.runs

Summarised == store.pc \in {"summarised", "saved"}

\* C14: createEvalSummary reduces the counted runs it is given: totalRuns is
\* their number, passedRuns the number with status passed, passRate is
\* passedRuns / totalRuns * 100, meanDuration the duration sum / totalRuns,
\* both 0 for no runs, and `runs` is the input list itself.
C14_SummaryIsReduction ==
    Summarised =>
        LET in == store.runData
            out == store.evalSummary
            passed == {i \in DOMAIN in : in[i].result.status = "passed"}
        IN /\ out.runs = in
           /\ out.totalRuns = Len(in)
           /\ out.passedRuns = Cardinality(passed)
           /\ out.passRate[2] > 0 /\ out.meanDuration[2] > 0
           /\ IF Len(in) = 0
              THEN out.passRate[1] = 0 /\ out.meanDuration[1] = 0
              ELSE /\ out.passRate[1] * Len(in) = Cardinality(passed) * 100 * out.passRate[2]
                   /\ out.meanDuration[1] * Len(in) =
                         SumDurations([i \in DOMAIN in |-> in[i].result]) * out.meanDuration[2]

C14_Witness ==
    /\ Summarised
    /\ store.evalSummary.totalRuns = 3
    /\ store.evalSummary.passedRuns = 2
    /\ store.evalSummary.meanDuration \notin {<<3, 3>>, <<9, 3>>}

C14_WitnessEmpty ==
    /\ Summarised
    /\ store.evalSummary.totalRuns = 0

Saved == store.pc = "saved"

\* what run n of the saved summary left on disk
RunFiles(n) == store.disk.run[n].files

ResultJson(n) == RunFiles(n)["result.json"]

\* the raw texts of run n
RawTexts(n) ==
    LET runData == store.evalSummary.runs[n]
        content == IF Has(runData, "outputContent") THEN runData.outputContent ELSE NoProperty
    IN (IF Has(runData, "transcript") THEN {runData.transcript} ELSE {})
         \cup (IF Has(content, "eval") THEN {content.eval} ELSE {})
         \cup (IF Has(content, "scripts")
               THEN {content.scripts[s] : s \in DOMAIN content.scripts} ELSE {})

\* the relative paths result.json lists
ListedOutputPaths(n) ==
    IF ~Has(ResultJson(n), "outputPaths") THEN {}
    ELSE LET paths == ResultJson(n).outputPaths
         IN (IF Has(paths, "eval") THEN {paths.eval} ELSE {})
              \cup (IF Has(paths, "scripts")
                    THEN {paths.scripts[s] : s \in DOMAIN paths.scripts} ELSE {})

\* C15: after saveResults, for every counted run n, transcript.jsonl exists
\* exactly when the run has a (non-empty) transcript; result.json has
\* transcriptPath exactly when that file was written; every path listed in
\* outputPaths names a written file under outputs/; and result.json holds only
\* status, error, duration and paths, never the transcript or output text.
C15_ResultJsonListsWrittenFiles ==
    Saved =>
        \A n \in DOMAIN store.evalSummary.runs :
            LET runData == store.evalSummary.runs[n]
            IN /\ Has(RunFiles(n), "transcript.jsonl") <=>
                     (Has(runData, "transcript") /\ runData.transcript # "")
               /\ Has(ResultJson(n), "transcriptPath") <=> Has(RunFiles(n), "transcript.jsonl")
               /\ Has(ResultJson(n), "transcriptPath") =>
                     ResultJson(n).transcriptPath = "./transcript.jsonl"
               /\ \A path \in ListedOutputPaths(n) :
                     \E name \in {"eval"} \cup ScriptNames :
                        /\ path = "./outputs/" \o name \o ".txt"
                        /\ Has(RunFiles(n), "outputs/" \o name \o ".txt")
               /\ DOMAIN ResultJson(n) \subseteq
                     {"status", "error", "duration", "transcriptPath", "outputPaths"}
               /\ \A field \in DOMAIN ResultJson(n) \ {"outputPaths", "duration"} :
                     ResultJson(n)[field] \notin RawTexts(n) \ {""}
               /\ ListedOutputPaths(n) \cap RawTexts(n) = {}

C15_Witness ==
    /\ Saved
    /\ Len(store.evalSummary.runs) = 2
    /\ Has(RunFiles(1), "transcript.jsonl")
    /\ ~Has(RunFiles(2), "transcript.jsonl")
    /\ Has(store.evalSummary.runs[2], "transcript")
    /\ Cardinality(ListedOutputPaths(1)) = 2
    /\ Has(store.evalSummary.runs[2], "outputContent")
    /\ ListedOutputPaths(2) = {}

AgentSettled == agent.pc \in {"returned", "rejected"}

\* C12: an agent invocation never stops its session twice, and once it has
\* returned or rejected it has stopped the session exactly once if it
\* provisioned one (and never if it did not).
C12_SessionStoppedExactlyOnce ==
    /\ agent.stopCalls <= 1
    /\ AgentSettled => (agent.stopCalls = 1 <=> agent.sandbox)

\* the abort handler stopped the session in mid-run and the finally block ran
C12_Witness ==
    /\ agent.pc = "returned"
    /\ agent.kind = "claude-code"
    /\ agent.sandbox
    /\ agent.aborted
    /\ agent.cancelledAt = "tool"
    /\ agent.stopCalls = 1

\* C19: an invocation whose signal was cancelled while it was at one of its
\* awaits returns a result reported as aborted.
C19_CancellationObserved ==
    (agent.pc = "returned" /\ agent.cancelledAt \in RejectingAwaits \cup {"captureTranscript"})
        => IsAbortedResult(agent.result)

\* C20: while the coding tool runs no validation-only file (EVAL.ts,
\* *.test.ts, *.test.tsx, PROMPT.md) is in the session, and the fixture's
\* validation files are uploaded only after the tool exited with code 0.
C20_NoValidationFilesWhileToolRuns ==
    /\ agent.pc = "tool" => \A f \in agent.session : ~isTestFilePattern(f)
    /\ agent.testsUploaded => agent.toolExit = 0

AllSettled == \A k \in DOMAIN attempts : pc[k] = "settled"

C22_EventuallyReturns ==
    <>(Returned /\ Len(evalSummaries) = Len(fixtures))

C22_Witness ==
    /\ Returned
    /\ Len(evalSummaries) = 2
    /\ \E k, j \in DOMAIN attempts :
          /\ attempts[k].fixture = attempts[j].fixture
          /\ results[k].aborted
          /\ agentAborted[k]
          /\ RecordedPass(j)

Running == {k \in DOMAIN attempts : pc[k] = "running"}

Started(p) == {k \in FixtureAttempts(p) : k <= launched}

Finished(k) == pc[k] \in {"settled", "threw"}

RECURSIVE TotalAgentCalls(_)
TotalAgentCalls(n) == IF n = 0 THEN 0 ELSE agentCalls[n] + TotalAgentCalls(n - 1)

EvalDir(p) == store.disk[p]

SummaryJson(p) == EvalDir(p).summary

\* the attempt result at position n of fixture p's counted sequence
CountedAt(p, n) == results[AttemptIndex(p, countedRuns[p][n])]

\* "NN%" for passed of total: the decimal digits of the rounded percentage
\* (0 for no runs) followed by a percent sign
IsPercentOf(text, passed, total) ==
    \E nn \in 0..100 :
        /\ text = ToString(nn) \o "%"
        /\ IF total = 0 THEN nn = 0
           ELSE /\ 2 * (nn * total - 100 * passed) <= total
                /\ 2 * (100 * passed - nn * total) < total

\* C25: for every fixture saveResults leaves exactly totalRuns run
\* directories, run-1 .. run-totalRuns, the n-th holding result.json of the
\* n-th counted run whatever its run index, and a summary.json holding
\* exactly totalRuns, passedRuns, passRate as "NN%" and meanDuration.
C25_RunDirectoriesByCountedPosition ==
    Returned =>
        \A p \in DOMAIN fixtures :
            LET sum == evalSummaries[p]
                run == EvalDir(p).run
            IN /\ Len(run) = sum.totalRuns
               /\ \A n \in 1..sum.totalRuns :
                     /\ run[n].dir = "run-" \o ToString(n)
                     /\ Has(run[n].files, "result.json")
                     /\ run[n].files["result.json"].status = CountedAt(p, n).runData.result.status
                     /\ run[n].files["result.json"].duration = CountedAt(p, n).runData.result.duration
               /\ \A n, m \in 1..sum.totalRuns : n # m => run[n].dir # run[m].dir
               /\ DOMAIN SummaryJson(p) = {"totalRuns", "passedRuns", "passRate", "meanDuration"}
               /\ SummaryJson(p).totalRuns = sum.totalRuns
               /\ SummaryJson(p).passedRuns = sum.passedRuns
               /\ SummaryJson(p).meanDuration = sum.meanDuration
               /\ IsPercentOf(SummaryJson(p).passRate, sum.passedRuns, sum.totalRuns)

\* the only counted run of a fixture has run index 1 and is saved as run-1
C25_Witness ==
    /\ Returned
    /\ \E p \in DOMAIN fixtures :
          /\ countedRuns[p] = <<1>>
          /\ EvalDir(p).run[1].dir = "run-1"
          /\ SummaryJson(p).passRate = "100%"
    /\ \E p \in DOMAIN fixtures :
          /\ evalSummaries[p].totalRuns = 2
          /\ SummaryJson(p).passRate = "50%"

\* C26: with earlyExit every summary has at most one passed run, and that
\* run is the last of the counted sequence, however many attempts of the
\* fixture completed with status passed.
C26_AtMostOnePassCountedLast ==
    (Done /\ config.earlyExit) =>
        \A p \in DOMAIN fixtures :
            LET sum == evalSummaries[p]
            IN /\ sum.passedRuns <= 1
               /\ sum.passedRuns = 1 =>
                     /\ CountedStatus(p, sum.totalRuns) = "passed"
                     /\ \A i \in 1..(sum.totalRuns - 1) : CountedStatus(p, i) # "passed"

\* two attempts of one fixture recorded a pass; one passed run is counted,
\* after a failed one
C26_Witness ==
    /\ Done
    /\ config.earlyExit
    /\ \E p \in DOMAIN fixtures :
          /\ evalSummaries[p].passedRuns = 1
          /\ evalSummaries[p].totalRuns = 2
          /\ \E k, j \in FixtureAttempts(p) : k # j /\ RecordedPass(k) /\ RecordedPass(j)

\* the step cancels the signal of fixture p
Cancels(p) == ~abortControllers[p] /\ abortControllers'[p]

\* C27: a fixture's signal is cancelled only with earlyExit, and only in the
\* step in which an attempt of that same fixture records a non-aborted
\* passed outcome; no other step cancels a signal.
C27_CancelledOnlyByOwnPass ==
    /\ [](\A p \in DOMAIN fixtures :
            abortControllers[p] =>
                /\ config.earlyExit
                /\ \E k \in FixtureAttempts(p) : RecordedPass(k))
    /\ [][\A p \in DOMAIN fixtures :
            Cancels(p) =>
                /\ config.earlyExit
                /\ \E k \in FixtureAttempts(p) : ~RecordedPass(k) /\ RecordedPass(k)'
                /\ \A k \in DOMAIN attempts :
                      (pc[k] # pc'[k]) => (k \in FixtureAttempts(p) /\ RecordedPass(k)')]_vars

\* one fixture's signal is cancelled by its own pass while the other fixture,
\* whose attempts failed or ended with the text 'Aborted', keeps its signal
C27_Witness ==
    /\ config.earlyExit
    /\ Len(fixtures) = 2
    /\ \E p, q \in DOMAIN fixtures :
          /\ abortControllers[p]
          /\ ~abortControllers[q]
          /\ \E k, j \in FixtureAttempts(q) :
                /\ pc[k] = "settled" /\ ~results[k].aborted
                /\ results[k].runData.result.status = "failed"
                /\ pc[j] = "settled" /\ results[j].aborted

\* C28: an outcome is flagged aborted only when its fixture's signal was
\* cancelled by the time the attempt finished (the signal stays cancelled, so
\* it is cancelled in every later state); without earlyExit no outcome is
\* flagged aborted.
C28_AbortedOnlyAfterCancel ==
    \A k \in DOMAIN attempts :
        (pc[k] = "settled" /\ results[k].aborted) =>
            /\ abortControllers[attempts[k].fixture]
            /\ config.earlyExit

\* C29: every returned summary has totalRuns >= 1 (runs is at least 1), so
\* the attempts of a fixture are never all aborted, and a fixture with an
\* aborted attempt has passedRuns = 1.
C29_NeverAllAborted ==
    Done =>
        \A p \in DOMAIN fixtures :
            /\ evalSummaries[p].totalRuns >= 1
            /\ \E k \in FixtureAttempts(p) : ~results[k].aborted
            /\ (\E k \in FixtureAttempts(p) : results[k].aborted) =>
                  evalSummaries[p].passedRuns = 1

\* C30: with earlyExit, a fixture whose passing run comes after a failed
\* counted run (passedRuns = 1 < totalRuns) makes the exit code non-zero;
\* the exit code is 0 only if every fixture has no counted run or its
\* lowest-index counted run passed.
C30_FailBeforePassExitsNonZero ==
    (phase = "exited" /\ Returned /\ config.earlyExit) =>
        /\ (\E p \in DOMAIN fixtures :
               evalSummaries[p].passedRuns = 1 /\ evalSummaries[p].totalRuns > 1)
              => exitCode # 0
        /\ exitCode = 0 =>
              \A p \in DOMAIN fixtures :
                  \/ evalSummaries[p].totalRuns = 0
                  \/ CountedStatus(p, 1) = "passed"

\* every fixture passed in the end, one of them after a failed counted run
C30_Witness ==
    /\ phase = "exited"
    /\ Returned
    /\ config.earlyExit
    /\ Len(fixtures) = 2
    /\ exitCode = 1
    /\ \A p \in DOMAIN fixtures : evalSummaries[p].passedRuns = 1
    /\ \E p \in DOMAIN fixtures :
          /\ evalSummaries[p].totalRuns = 2
          /\ CountedStatus(p, 1) = "failed"

====
